---- MODULE Spec2Model ----
(***************************************************************************)
(* A model of lsh (src/lsh.c): the read / split / execute loop of a small  *)
(* interactive command interpreter, its three builtins, and the launcher   *)
(* that forks a child, replaces its image and waits for it.                *)
(*                                                                         *)
(* Characters are their ASCII codes; a C string is the sequence of its     *)
(* characters without the terminating NUL. C arrays are 0-based, TLA+      *)
(* sequences 1-based: Arg(v, i) reads args[i].                             *)
(***************************************************************************)
EXTENDS Integers, Sequences, FiniteSets, TLC

(***************************************************************************)
(* Bounds of the model.                                                    *)
(***************************************************************************)
\* commands (loop iterations) one run of the interpreter is followed for
MaxCmds == 2
\* stop signals delivered to one launched program
MaxStops == 2
\* longest line the tokenizer is applied to in SpecTok
MaxTokLine == 4
\* longest input lsh_read_line is applied to, character by character, in SpecRead
MaxReadLen == 3
\* growth steps of the line buffer and of the token vector that are reached
MaxGrow == 2

(***************************************************************************)
(* Characters.                                                             *)
(***************************************************************************)
NUL == 0
BEL == 7
TAB == 9
LF == 10
CR == 13
SP == 32
\* getchar()'s end-of-input value
EOF == -1

\* LSH_TOK_DELIM without the bell character
LSH_TOK_DELIM_nobell == {SP, TAB, CR, LF}

\* #define LSH_TOK_DELIM " \t\r\n\a"
LSH_TOK_DELIM == {SP, TAB, CR, LF, BEL}

\* #define LSH_TOK_BUFSIZE 64
LSH_TOK_BUFSIZE == 64

\* #define LSH_RL_BUFSIZE 1024
LSH_RL_BUFSIZE == 1024

EXIT_SUCCESS == 0
EXIT_FAILURE == 1

\* The null pointer that ends an argument vector. A token never holds the
\* NUL character, so this value is no token.
NULL == <<NUL>>

\* args[i]
Arg(v, i) == v[i + 1]

(***************************************************************************)
(* The builtin table.                                                      *)
(***************************************************************************)
\* "cd", "help", "exit"
builtin_str == << <<99, 100>>, <<104, 101, 108, 112>>, <<101, 120, 105, 116>> >>

\* &lsh_cd, &lsh_help, &lsh_exit
builtin_func == <<"lsh_cd", "lsh_help", "lsh_exit">>

lsh_num_builtins == Len(builtin_str)

(***************************************************************************)
(* strtok and lsh_split_line.                                              *)
(***************************************************************************)
\* a scan that skips nothing: every delimiter then ends a (possibly empty) token
SkipDelims_none(s, i) == i

\* strtok's first scan: the index of the first non-delimiter at or after i
RECURSIVE SkipDelims(_, _)
SkipDelims(s, i) ==
    IF i <= Len(s) /\ s[i] \in LSH_TOK_DELIM THEN SkipDelims(s, i + 1) ELSE i

\* strtok's second scan: the index of the first delimiter at or after i
RECURSIVE ScanToken(_, _)
ScanToken(s, i) ==
    IF i <= Len(s) /\ s[i] \notin LSH_TOK_DELIM THEN ScanToken(s, i + 1) ELSE i

\* One call of strtok on the string s with the saved position save: the
\* token (NULL when none is left) and the new saved position. The delimiter
\* that ends the token is overwritten by NUL and the scan resumes after it.
strtok(s, save) ==
    LET b == SkipDelims(s, save)
        e == ScanToken(s, b)
    IN  IF b > Len(s)
        THEN [token |-> NULL, save |-> b]
        ELSE [token |-> SubSeq(s, b, e - 1),
              save  |-> IF e <= Len(s) THEN e + 1 ELSE e]

\* a growth test that lets position reach the capacity
tok_full_late(position, bufsize) == position > bufsize

\* if (position >= bufsize) in lsh_split_line
tok_full(position, bufsize) == position >= bufsize

\* lsh_split_line after its malloc and the first strtok(line, LSH_TOK_DELIM):
\* an empty vector of LSH_TOK_BUFSIZE pointers
split_start(s) ==
    [tokens |-> <<>>, position |-> 0, bufsize |-> LSH_TOK_BUFSIZE,
     inb |-> TRUE, tk |-> strtok(s, 1), ret |-> FALSE]

\* One pass of the while loop of lsh_split_line, or, when no token is left,
\* the store of the sentinel and the return. tokens is the vector written so
\* far, tk the last result of strtok; inb records that every store so far
\* was at an index below the capacity bufsize.
split_token(s, r) ==
    IF r.tk.token = NULL
    THEN [tokens   |-> Append(r.tokens, NULL),
          position |-> r.position,
          bufsize  |-> r.bufsize,
          inb      |-> r.inb /\ r.position < r.bufsize,
          tk       |-> r.tk,
          ret      |-> TRUE]
    ELSE LET position == r.position + 1
         IN  [tokens   |-> Append(r.tokens, r.tk.token),
              position |-> position,
              bufsize  |-> IF tok_full(position, r.bufsize)
                           THEN r.bufsize + LSH_TOK_BUFSIZE ELSE r.bufsize,
              inb      |-> r.inb /\ r.position < r.bufsize,
              tk       |-> strtok(s, r.tk.save),
              ret      |-> FALSE]

\* The while loop of lsh_split_line on the string s
RECURSIVE split_loop(_, _)
split_loop(s, r) ==
    LET n == split_token(s, r)
    IN  IF n.ret THEN n ELSE split_loop(s, n)

\* lsh_split_line(line), every allocation succeeding
lsh_split_line(s) == split_loop(s, split_start(s))

(***************************************************************************)
(* lsh_read_line.                                                          *)
(***************************************************************************)
\* getchar() on the input stream in at index i
getchar(in, i) == IF i <= Len(in) THEN in[i] ELSE EOF

\* a growth test that lets position reach the capacity
rl_full_late(position, bufsize) == position > bufsize

\* if (position >= bufsize) in lsh_read_line
rl_full(position, bufsize) == position >= bufsize

\* lsh_read_line after its malloc: an empty buffer of LSH_RL_BUFSIZE bytes
read_start ==
    [buffer |-> <<>>, consumed |-> 0, bufsize |-> LSH_RL_BUFSIZE,
     inb |-> TRUE, ret |-> FALSE]

\* One pass of the while loop of lsh_read_line with c the character read;
\* position = Len(buffer), inb records that every write so far was at an
\* index below the capacity bufsize, ret that the function returned.
read_char(r, c) ==
    IF c = EOF \/ c = LF
    THEN [buffer   |-> Append(r.buffer, NUL),
          consumed |-> r.consumed + 1,
          bufsize  |-> r.bufsize,
          inb      |-> r.inb /\ Len(r.buffer) < r.bufsize,
          ret      |-> TRUE]
    ELSE LET position == Len(r.buffer) + 1
         IN  [buffer   |-> Append(r.buffer, c),
              consumed |-> r.consumed + 1,
              bufsize  |-> IF rl_full(position, r.bufsize)
                           THEN r.bufsize + LSH_RL_BUFSIZE ELSE r.bufsize,
              inb      |-> r.inb /\ Len(r.buffer) < r.bufsize,
              ret      |-> FALSE]

\* The while loop of lsh_read_line on the input stream in
RECURSIVE read_loop(_, _)
read_loop(in, r) ==
    LET n == read_char(r, getchar(in, r.consumed + 1))
    IN  IF n.ret THEN n ELSE read_loop(in, n)

\* lsh_read_line(), every allocation succeeding
lsh_read_line(in) == read_loop(in, read_start)

\* The C string a buffer holds: its characters before the first NUL
CStr(buf) ==
    LET nuls == { i \in 1..Len(buf) : buf[i] = NUL }
    IN  IF nuls = {} THEN buf
        ELSE SubSeq(buf, 1, (CHOOSE i \in nuls : \A j \in nuls : i <= j) - 1)

(***************************************************************************)
(* The environment: what the operator can type, which programs the search  *)
(* path holds, which directories exist.                                    *)
(***************************************************************************)
\* first words: cd, help, exit, cdx, xcd, ls, no
FirstWords ==
    { builtin_str[1], builtin_str[2], builtin_str[3],
      <<99, 100, 120>>, <<120, 99, 100>>, <<108, 115>>, <<110, 111>> }

\* second words: d, q, exit
SecondWords == { <<100>>, <<113>>, builtin_str[3] }

\* programs execvp can find and load: ls
Executables == { <<108, 115>> }

\* directories chdir can enter: "/" and "d"
Dirs == { <<47>>, <<100>> }

\* the lines of the operator: nothing but delimiters, or one or two words,
\* with single or repeated delimiters before, between and after them
InputLines ==
    { <<>>, <<SP>>, <<TAB, CR, BEL, SP>> }
    \cup FirstWords
    \cup { <<TAB, SP>> \o w \o <<BEL>> : w \in FirstWords }
    \cup { w \o <<SP>> \o v : w \in FirstWords, v \in SecondWords }
    \cup { <<SP>> \o w \o <<TAB, BEL>> \o v \o <<CR, SP>> :
              w \in FirstWords, v \in SecondWords }

(***************************************************************************)
(* Wait statuses, as <sys/wait.h> encodes them.                            *)
(***************************************************************************)
SIGKILL == 9
SIGSTOP == 19

\* the status of a child that called exit(code)
ExitedStatus(code) == code * 256
\* the status of a child killed by signal sig
SignaledStatus(sig) == sig
\* the status of a child stopped by signal sig
StoppedStatus(sig) == sig * 256 + 127

WIFEXITED(s) == s % 128 = 0
WIFSIGNALED(s) == (s % 128) \in 1..126
WIFSTOPPED(s) == s % 256 = 127

\* a local int that was never assigned
Indeterminate == -1

\* the values an unassigned status can turn out to hold
Garbage == { ExitedStatus(0), StoppedStatus(SIGSTOP) }

(***************************************************************************)
(* State.                                                                  *)
(***************************************************************************)
VARIABLES
    pc,             \* where the interpreter process is
    prompts,        \* prompts emitted so far
    line,           \* lsh_loop's line: the storage lsh_read_line returned
    lineLive,       \* that storage is allocated and not yet freed
    args,           \* lsh_loop's args: the vector lsh_split_line returned
    argsLive,       \* that vector is allocated and not yet freed
    status,         \* lsh_loop's status
    cwd,            \* the interpreter's working directory
    procs,          \* the children forked so far, by pid
    pid,            \* lsh_launch's pid
    wpid,           \* lsh_launch's wpid
    wstatus,        \* lsh_launch's status
    sigchldIgnored, \* the interpreter inherited SIGCHLD as ignored
    exitStatus,     \* the interpreter's own exit status, once it has one
    called,         \* what this cycle's dispatch invoked, and with which vector
    cycleErr,       \* what this cycle wrote to the error stream
    waited,         \* this cycle called waitpid
    stopsSeen,      \* stop notifications this cycle's waitpid calls returned
    typed,          \* the characters getchar() gave the last lsh_read_line
    rline,          \* the last lsh_read_line's buffer, capacity, writes in bounds
    rargs,          \* the last lsh_split_line's position, capacity, stores in bounds
    failures,       \* what went wrong in the commands so far
    stdoutTty,      \* stdout is a terminal (line buffered), or a pipe or file
    outbuf,         \* what stdout's buffer holds, not yet written out
    screen,         \* what was written to the output so far
    helps           \* how many times lsh_help was called

vars == << pc, prompts, line, lineLive, args, argsLive, status, cwd, procs, pid,
           wpid, wstatus, sigchldIgnored, exitStatus, called, cycleErr, waited,
           stopsSeen, typed, rline, rargs, failures, stdoutTty, outbuf, screen,
           helps >>

\* no lsh_read_line has run in this cycle
NoRead ==
    [buffer |-> <<>>, consumed |-> 0, bufsize |-> 0, inb |-> TRUE, ret |-> FALSE]

\* no lsh_split_line has run in this cycle
NoSplit ==
    [tokens |-> <<>>, position |-> 0, bufsize |-> 0, inb |-> TRUE,
     tk |-> [token |-> NULL, save |-> 1], ret |-> FALSE]

NoCall == [fn |-> "none", argv |-> <<>>]
NoStatus == -1

Init ==
    /\ pc = "prompt"
    /\ prompts = 0
    /\ line = <<>>
    /\ lineLive = FALSE
    /\ args = <<>>
    /\ argsLive = FALSE
    /\ status = 1
    /\ cwd = <<47>>
    /\ procs = <<>>
    /\ pid = 0
    /\ wpid = 0
    /\ wstatus = Indeterminate
    /\ sigchldIgnored \in BOOLEAN
    /\ exitStatus = NoStatus
    /\ called = NoCall
    /\ cycleErr = {}
    /\ waited = FALSE
    /\ stopsSeen = 0
    /\ typed = <<>>
    /\ rline = NoRead
    /\ rargs = NoSplit
    /\ failures = {}
    /\ stdoutTty \in BOOLEAN
    /\ outbuf = <<>>
    /\ screen = <<>>
    /\ helps = 0

(***************************************************************************)
(* The builtins. Each handler yields its return value, the working         *)
(* directory it leaves and what it writes to the error stream.             *)
(***************************************************************************)
\* chdir(path) = 0
chdir_ok(path) == path \in Dirs

\* cd that, like other shells, goes to the first known directory without an argument
lsh_cd_home(a, dir) ==
    IF Arg(a, 1) = NULL
    THEN [ret |-> 1, cwd |-> <<100>>, err |-> {}, out |-> <<>>]
    ELSE IF chdir_ok(Arg(a, 1))
         THEN [ret |-> 1, cwd |-> Arg(a, 1), err |-> {}, out |-> <<>>]
         ELSE [ret |-> 1, cwd |-> dir, err |-> {"lsh: chdir"}, out |-> <<>>]

\* cd that falls back to the root directory when chdir fails
lsh_cd_fallback(a, dir) ==
    IF Arg(a, 1) = NULL
    THEN [ret |-> 1, cwd |-> dir, err |-> {"lsh: expected argument to cd"}, out |-> <<>>]
    ELSE IF chdir_ok(Arg(a, 1))
         THEN [ret |-> 1, cwd |-> Arg(a, 1), err |-> {}, out |-> <<>>]
         ELSE [ret |-> 1, cwd |-> <<47>>, err |-> {"lsh: chdir"}, out |-> <<>>]

\* cd that returns what chdir returned
lsh_cd_retchdir(a, dir) ==
    IF Arg(a, 1) = NULL
    THEN [ret |-> 1, cwd |-> dir, err |-> {"lsh: expected argument to cd"}, out |-> <<>>]
    ELSE IF chdir_ok(Arg(a, 1))
         THEN [ret |-> 0, cwd |-> Arg(a, 1), err |-> {}, out |-> <<>>]
         ELSE [ret |-> 1, cwd |-> dir, err |-> {"lsh: chdir"}, out |-> <<>>]

lsh_cd(a, dir) ==
    IF Arg(a, 1) = NULL
    THEN [ret |-> 1, cwd |-> dir, err |-> {"lsh: expected argument to cd"}, out |-> <<>>]
    ELSE IF chdir_ok(Arg(a, 1))
         THEN [ret |-> 1, cwd |-> Arg(a, 1), err |-> {}, out |-> <<>>]
         ELSE [ret |-> 1, cwd |-> dir, err |-> {"lsh: chdir"}, out |-> <<>>]

\* the text lsh_help prints: the listing of the builtins, as one item
Listing == "help"

\* lsh_help: printf of the listing to stdout, return 1
lsh_help(a, dir) == [ret |-> 1, cwd |-> dir, err |-> {}, out |-> <<Listing>>]

lsh_exit(a, dir) == [ret |-> 0, cwd |-> dir, err |-> {}, out |-> <<>>]

\* (*builtin_func[i])(args)
CallBuiltin(i, a, dir) ==
    CASE builtin_func[i] = "lsh_cd"   -> lsh_cd(a, dir)
      [] builtin_func[i] = "lsh_help" -> lsh_help(a, dir)
      [] builtin_func[i] = "lsh_exit" -> lsh_exit(a, dir)

(***************************************************************************)
(* lsh_execute's lookup.                                                   *)
(***************************************************************************)
RECURSIVE StrDiff(_, _)
StrDiff(a, b) ==
    IF a = <<>> /\ b = <<>> THEN 0
    ELSE IF a = <<>> THEN 0 - Head(b)
    ELSE IF b = <<>> THEN Head(a)
    ELSE IF Head(a) # Head(b) THEN Head(a) - Head(b)
    ELSE StrDiff(Tail(a), Tail(b))

\* strncmp(a, b, strlen(b)): a comparison of only the builtin name's length
strcmp_prefix(a, b) ==
    StrDiff(SubSeq(a, 1, IF Len(a) < Len(b) THEN Len(a) ELSE Len(b)), b)

strcmp(a, b) == StrDiff(a, b)

\* the i at which lsh_execute's for loop returns, 0 when it runs to its end
BuiltinIndex(a) ==
    LET hits == { i \in 1..lsh_num_builtins : strcmp(Arg(a, 0), builtin_str[i]) = 0 }
    IN  IF hits = {} THEN 0 ELSE CHOOSE i \in hits : \A j \in hits : i <= j

(***************************************************************************)
(* The interpreter process: lsh_loop and main.                             *)
(***************************************************************************)
\* printf("> "), the start of one iteration of lsh_loop
Prompt ==
    /\ pc = "prompt"
    /\ prompts < MaxCmds
    /\ prompts' = prompts + 1
    /\ pc' = "read"
    /\ called' = NoCall
    /\ cycleErr' = {}
    /\ waited' = FALSE
    /\ stopsSeen' = 0
    /\ pid' = 0
    /\ wpid' = 0
    /\ wstatus' = Indeterminate
    /\ outbuf' = Append(outbuf, "> ")
    /\ typed' = <<>>
    /\ rline' = NoRead
    /\ rargs' = NoSplit
    /\ UNCHANGED << line, lineLive, args, argsLive, status, cwd, procs,
                    sigchldIgnored, exitStatus, failures,
                    stdoutTty, screen, helps >>

\* stdout when getchar() asks the terminal for input: a line-buffered
\* stdout (a terminal) is written out first, a fully buffered one is not
ReadFlush ==
    IF stdoutTty
    THEN [outbuf |-> <<>>, screen |-> screen \o outbuf]
    ELSE [outbuf |-> outbuf, screen |-> screen]

\* line = lsh_read_line(), with in the characters getchar() delivers
ReadFrom(in) ==
    /\ pc = "read"
    /\ outbuf' = ReadFlush.outbuf
    /\ screen' = ReadFlush.screen
    /\ typed' = in
    /\ rline' = lsh_read_line(in)
    /\ line' = CStr(lsh_read_line(in).buffer)
    /\ lineLive' = TRUE
    /\ pc' = "split"
    /\ UNCHANGED << prompts, args, argsLive, status, cwd, procs, pid, wpid, wstatus,
                    sigchldIgnored, exitStatus, called, cycleErr, waited,
                    stopsSeen, rargs, failures, stdoutTty, helps >>

\* the operator types a line and Enter, or ends the input
ReadLine == \E l \in InputLines, end \in {LF, EOF} : ReadFrom(l \o <<end>>)

\* an allocation error that gives up the line and goes on with the loop
AfterAllocError_skip == [pc |-> "test", exitStatus |-> exitStatus]

\* after fprintf(stderr, "lsh: allocation error\n"): exit(EXIT_FAILURE)
AfterAllocError == [pc |-> "exited", exitStatus |-> EXIT_FAILURE]

\* malloc or realloc fails in lsh_read_line or in lsh_split_line
AllocFail ==
    /\ pc \in {"read", "split"}
    /\ cycleErr' = cycleErr \cup {"lsh: allocation error"}
    /\ exitStatus' = AfterAllocError.exitStatus
    /\ pc' = AfterAllocError.pc
    /\ outbuf' = IF pc' = "exited" THEN <<>> ELSE outbuf
    /\ screen' = IF pc' = "exited" THEN screen \o outbuf ELSE screen
    /\ UNCHANGED << prompts, line, lineLive, args, argsLive, status, cwd, procs, pid,
                    wpid, wstatus, sigchldIgnored, called, waited, stopsSeen, typed,
                    rline, rargs, failures, stdoutTty, helps >>

\* args = lsh_split_line(line)
SplitLine ==
    /\ pc = "split"
    /\ args' = lsh_split_line(line).tokens
    /\ rargs' = lsh_split_line(line)
    /\ argsLive' = TRUE
    /\ pc' = "execute"
    /\ UNCHANGED << prompts, line, lineLive, status, cwd, procs, pid, wpid, wstatus,
                    sigchldIgnored, exitStatus, called, cycleErr, waited,
                    stopsSeen, typed, rline, failures, stdoutTty, outbuf, screen,
                    helps >>

\* lsh_execute: an empty command was entered
ExecuteEmpty ==
    /\ pc = "execute"
    /\ Arg(args, 0) = NULL
    /\ status' = 1
    /\ pc' = "free_line"
    /\ UNCHANGED << prompts, line, lineLive, args, argsLive, cwd, procs, pid, wpid,
                    wstatus, sigchldIgnored, exitStatus, called, cycleErr, waited,
                    stopsSeen, typed, rline, rargs, failures, stdoutTty, outbuf,
                    screen, helps >>

\* lsh_execute: the command equals a builtin, which is run
ExecuteBuiltin ==
    /\ pc = "execute"
    /\ Arg(args, 0) # NULL
    /\ BuiltinIndex(args) # 0
    /\ LET r == CallBuiltin(BuiltinIndex(args), args, cwd)
       IN  /\ status' = r.ret
           /\ cwd' = r.cwd
           /\ cycleErr' = cycleErr \cup r.err
           /\ failures' = failures \cup r.err
           /\ outbuf' = outbuf \o r.out
           /\ helps' = IF r.out = <<>> THEN helps ELSE helps + 1
    /\ called' = [fn |-> builtin_func[BuiltinIndex(args)], argv |-> args]
    /\ pc' = "free_line"
    /\ UNCHANGED << prompts, line, lineLive, args, argsLive, procs, pid, wpid,
                    wstatus, sigchldIgnored, exitStatus, waited, stopsSeen, typed,
                    rline, rargs, stdoutTty, screen >>

(***************************************************************************)
(* Child processes. A child is forked (it runs lsh_launch's child branch), *)
(* running (its image was replaced), stopped (the stop is not yet reported *)
(* to a waitpid), stopped_seen (it is), zombie (terminated, not yet        *)
(* reaped) or gone (reaped: the kernel holds nothing of it any more).      *)
(***************************************************************************)
Released ==
    [st |-> "gone", wstat |-> 0, nstops |-> 0, argv |-> <<>>, cwd |-> <<>>,
     out |-> <<>>]

Live(c) == c.st \in {"forked", "running", "stopped", "stopped_seen"}
Terminal(c) == c.st \in {"zombie", "gone"}
\* forked and not yet reaped in a terminal state
Outstanding == { p \in DOMAIN procs : procs[p].st # "gone" }

\* The child c terminates with wait status ws. With SIGCHLD ignored a
\* terminated child is reaped at once and leaves no status behind.
Terminated(c, ws) ==
    IF sigchldIgnored THEN Released ELSE [c EXCEPT !.st = "zombie", !.wstat = ws]

\* a child branch without the exit: the child returns from lsh_launch into
\* lsh_loop
ChildExecFailed_return(c) == [c EXCEPT !.st = "returned"]

\* the child branch after execvp returned -1: perror("lsh"); exit(EXIT_FAILURE)
ChildExecFailed(c) ==
    Terminated([c EXCEPT !.out = <<>>], ExitedStatus(EXIT_FAILURE))

\* a wait loop that also ends on a stopped child
WaitAgain_stop(s) == ~WIFEXITED(s) /\ ~WIFSIGNALED(s) /\ ~WIFSTOPPED(s)

\* a wait that is not repeated
WaitAgain_once(s) == FALSE

\* while (!WIFEXITED(status) && !WIFSIGNALED(status))
WaitAgain(s) == ~WIFEXITED(s) /\ ~WIFSIGNALED(s)

\* a launcher that returns whether the child succeeded
lsh_launch_ret_ok(s) == IF s = ExitedStatus(0) THEN 1 ELSE 0

\* lsh_launch's return 1
lsh_launch_ret(s) == 1

\* a failed fork that ends the interpreter
AfterForkError_fatal == [pc |-> "exited", exitStatus |-> EXIT_FAILURE]

\* after perror("lsh") for a failed fork, lsh_launch goes on to its return
AfterForkError == [pc |-> "free_line", exitStatus |-> exitStatus]

\* waitpid(pid, &status, WUNTRACED) on the child c, when it does not block:
\* whether it wrote a status, the status, and the child afterwards
waitpid(c) ==
    CASE c.st = "stopped" ->
            [wrote |-> TRUE, status |-> StoppedStatus(SIGSTOP),
             child |-> [c EXCEPT !.st = "stopped_seen"]]
      [] c.st = "zombie" ->
            [wrote |-> TRUE, status |-> c.wstat, child |-> Released]
      [] c.st = "gone" ->
            [wrote |-> FALSE, status |-> 0, child |-> c]

\* lsh_execute finds no builtin and calls lsh_launch: pid = fork()
LaunchFork ==
    /\ pc = "execute"
    /\ Arg(args, 0) # NULL
    /\ BuiltinIndex(args) = 0
    /\ called' = [fn |-> "lsh_launch", argv |-> args]
    /\ \/ /\ procs' = Append(procs, [st |-> "forked", wstat |-> 0, nstops |-> 0,
                                     argv |-> args, cwd |-> cwd,
                                     out |-> outbuf])
          /\ pid' = Len(procs) + 1
          /\ pc' = "wait"
          /\ UNCHANGED << status, cycleErr, exitStatus, failures >>
       \/ /\ pid' = -1
          /\ cycleErr' = cycleErr \cup {"lsh: fork"}
          /\ failures' = failures \cup {"lsh: fork"}
          /\ pc' = AfterForkError.pc
          /\ exitStatus' = AfterForkError.exitStatus
          /\ status' = 1
          /\ UNCHANGED procs
    /\ UNCHANGED << prompts, line, lineLive, args, argsLive, cwd, wpid, wstatus,
                    sigchldIgnored, waited, stopsSeen, typed, rline, rargs, stdoutTty,
                    outbuf, screen, helps >>

\* one iteration of lsh_launch's do-while: waitpid returns, the condition is
\* tested, and lsh_launch returns to lsh_loop when it is false
LaunchWait ==
    /\ pc = "wait"
    /\ procs[pid].st \in {"stopped", "zombie", "gone"}
    /\ LET w == waitpid(procs[pid])
       IN  \E s \in (IF w.wrote THEN {w.status}
                     ELSE IF wstatus = Indeterminate THEN Garbage ELSE {wstatus}) :
              /\ wstatus' = s
              /\ wpid' = IF w.wrote THEN pid ELSE -1
              /\ procs' = [procs EXCEPT ![pid] = w.child]
              /\ IF WaitAgain(s)
                 THEN pc' = "wait" /\ status' = status
                 ELSE pc' = "free_line" /\ status' = lsh_launch_ret(s)
    /\ waited' = TRUE
    /\ stopsSeen' = IF procs[pid].st = "stopped" THEN stopsSeen + 1 ELSE stopsSeen
    /\ UNCHANGED << prompts, line, lineLive, args, argsLive, cwd, pid,
                    sigchldIgnored, exitStatus, called, cycleErr, typed, rline, rargs,
                    failures, stdoutTty, outbuf, screen, helps >>

\* a release that leaves the storage held
free_leak(live) == live

\* free(ptr): the storage is no longer held
free(live) == FALSE

\* free(line)
FreeLine ==
    /\ pc = "free_line"
    /\ lineLive' = free(lineLive)
    /\ pc' = "free_args"
    /\ UNCHANGED << prompts, line, args, argsLive, status, cwd, procs, pid, wpid,
                    wstatus, sigchldIgnored, exitStatus, called, cycleErr, waited,
                    stopsSeen, typed, rline, rargs, failures, stdoutTty, outbuf,
                    screen, helps >>

\* free(args)
FreeArgs ==
    /\ pc = "free_args"
    /\ argsLive' = free(argsLive)
    /\ pc' = "test"
    /\ UNCHANGED << prompts, line, lineLive, args, status, cwd, procs, pid, wpid,
                    wstatus, sigchldIgnored, exitStatus, called, cycleErr, waited,
                    stopsSeen, typed, rline, rargs, failures, stdoutTty, outbuf,
                    screen, helps >>

\* a main that reports whether any command failed
main_ret_failed(f) == IF f = {} THEN EXIT_SUCCESS ELSE EXIT_FAILURE

\* main's return EXIT_SUCCESS after lsh_loop(), whatever failed before
main_ret(f) == EXIT_SUCCESS

\* while (status); when the loop ends lsh_loop returns and main returns,
\* and the exit that follows writes out what stdout still holds
LoopTest ==
    /\ pc = "test"
    /\ IF status # 0
       THEN pc' = "prompt" /\ UNCHANGED << exitStatus, outbuf, screen >>
       ELSE /\ pc' = "done"
            /\ exitStatus' = main_ret(failures)
            /\ outbuf' = <<>>
            /\ screen' = screen \o outbuf
    /\ UNCHANGED << prompts, line, lineLive, args, argsLive, status, cwd, procs, pid,
                    wpid, wstatus, sigchldIgnored, called, cycleErr, waited,
                    stopsSeen, typed, rline, rargs, failures, stdoutTty, helps >>

(***************************************************************************)
(* The steps of a child.                                                   *)
(***************************************************************************)
\* the child branch of lsh_launch: execvp(args[0], args), and on failure
\* perror("lsh"); exit(EXIT_FAILURE)
ChildExec(p) ==
    /\ procs[p].st = "forked"
    /\ IF Arg(procs[p].argv, 0) \in Executables
       THEN /\ procs' = [procs EXCEPT ![p].st = "running", ![p].out = <<>>]
            /\ UNCHANGED << cycleErr, failures, screen >>
       ELSE /\ procs' = [procs EXCEPT ![p] = ChildExecFailed(procs[p])]
            /\ screen' = screen \o procs[p].out
            /\ cycleErr' = cycleErr \cup {"lsh: exec"}
            /\ failures' = failures \cup {"lsh: exec"}
    /\ UNCHANGED << pc, prompts, line, lineLive, args, argsLive, status, cwd, pid,
                    wpid, wstatus, sigchldIgnored, exitStatus, called, waited,
                    stopsSeen, typed, rline, rargs, stdoutTty, outbuf, helps >>

\* the launched program exits with some code
ChildExit(p) ==
    /\ procs[p].st = "running"
    /\ \E code \in {0, 1} :
          /\ procs' = [procs EXCEPT ![p] = Terminated(procs[p], ExitedStatus(code))]
          /\ failures' = IF code = 0 THEN failures ELSE failures \cup {"exit code"}
    /\ UNCHANGED << pc, prompts, line, lineLive, args, argsLive, status, cwd, pid, wpid,
                    wstatus, sigchldIgnored, exitStatus, called, cycleErr, waited,
                    stopsSeen, typed, rline, rargs, stdoutTty, outbuf, screen, helps >>

\* a signal kills the launched program, running or stopped
ChildKill(p) ==
    /\ procs[p].st \in {"running", "stopped", "stopped_seen"}
    /\ procs' = [procs EXCEPT ![p] = Terminated(procs[p], SignaledStatus(SIGKILL))]
    /\ failures' = failures \cup {"killed"}
    /\ UNCHANGED << pc, prompts, line, lineLive, args, argsLive, status, cwd, pid, wpid,
                    wstatus, sigchldIgnored, exitStatus, called, cycleErr, waited,
                    stopsSeen, typed, rline, rargs, stdoutTty, outbuf, screen, helps >>

\* a signal stops the launched program
ChildStop(p) ==
    /\ procs[p].st = "running"
    /\ procs[p].nstops < MaxStops
    /\ procs' = [procs EXCEPT ![p].st = "stopped", ![p].nstops = @ + 1]
    /\ UNCHANGED << pc, prompts, line, lineLive, args, argsLive, status, cwd, pid, wpid,
                    wstatus, sigchldIgnored, exitStatus, called, cycleErr, waited,
                    stopsSeen, typed, rline, rargs, failures, stdoutTty, outbuf,
                    screen, helps >>

\* SIGCONT resumes the stopped program
ChildCont(p) ==
    /\ procs[p].st \in {"stopped", "stopped_seen"}
    /\ procs' = [procs EXCEPT ![p].st = "running"]
    /\ UNCHANGED << pc, prompts, line, lineLive, args, argsLive, status, cwd, pid, wpid,
                    wstatus, sigchldIgnored, exitStatus, called, cycleErr, waited,
                    stopsSeen, typed, rline, rargs, failures, stdoutTty, outbuf,
                    screen, helps >>

\* the launched program changes its own working directory
ChildChdir(p) ==
    /\ procs[p].st = "running"
    /\ \E d \in Dirs \ {procs[p].cwd} : procs' = [procs EXCEPT ![p].cwd = d]
    /\ UNCHANGED << pc, prompts, line, lineLive, args, argsLive, status, cwd, pid, wpid,
                    wstatus, sigchldIgnored, exitStatus, called, cycleErr, waited,
                    stopsSeen, typed, rline, rargs, failures, stdoutTty, outbuf,
                    screen, helps >>

ChildStep ==
    \E p \in DOMAIN procs :
        \/ ChildExec(p) \/ ChildExit(p) \/ ChildKill(p)
        \/ ChildStop(p) \/ ChildCont(p) \/ ChildChdir(p)

ParentStep ==
    \/ Prompt \/ ReadLine \/ AllocFail \/ SplitLine
    \/ ExecuteEmpty \/ ExecuteBuiltin \/ LaunchFork \/ LaunchWait
    \/ FreeLine \/ FreeArgs \/ LoopTest

Next == ParentStep \/ ChildStep

Spec == Init /\ [][Next]_vars

(***************************************************************************)
(* Properties.                                                             *)
(***************************************************************************)
\* the positions of lsh_loop after lsh_execute has returned
AfterDispatch == {"free_line", "free_args", "test"}

\* the first token of the current line is exactly "exit"
FirstIsExit == Arg(args, 0) = <<101, 120, 105, 116>>

\* C1: once fork has succeeded, lsh_launch returns to lsh_loop only after the
\* child has reached a terminal state (exited or killed); whatever waitpid
\* reports before that, stops included, the interpreter stays in the wait and
\* emits no prompt.
C1_ReturnOnlyAfterTerminal ==
    [][ pc = "wait" =>
          /\ prompts' = prompts
          /\ \/ pc' = "wait"
             \/ pc' = "free_line" /\ Terminal(procs'[pid]) ]_vars

\* the launcher has returned after two stop notifications
C1_Witness ==
    /\ pc = "free_line"
    /\ called.fn = "lsh_launch"
    /\ stopsSeen >= 2
    /\ Terminal(procs[pid])

\* C2: at most one child of the interpreter is outstanding (forked and not
\* yet reaped in a terminal state), and while one is, the interpreter is
\* inside lsh_launch's wait for that child: it neither prompts nor reads.
C2_OneOutstandingChild ==
    /\ Cardinality(Outstanding) <= 1
    /\ Outstanding # {} => pc = "wait" /\ Outstanding = {pid}
    /\ pc \in {"prompt", "read"} => Outstanding = {}

\* a second command's child is outstanding after the first one's was reaped
C2_Witness ==
    /\ Len(procs) = 2
    /\ procs[1].st = "gone"
    /\ procs[2].st = "stopped_seen"
    /\ pc = "wait"

\* C3: the loop ends if and only if the first token of the line is exactly
\* "exit"; every other dispatch returns 1 (continue) and the loop prompts
\* again; once the loop has ended nothing more happens.
C3_TerminatedIffExit ==
    /\ [](pc \in AfterDispatch => (status = 0 <=> FirstIsExit))
    /\ [](pc \in AfterDispatch /\ ~FirstIsExit => status = 1)
    /\ [](pc = "done" => FirstIsExit /\ called.fn = "lsh_exit")
    /\ [][ /\ pc = "test" /\ ~FirstIsExit => pc' = "prompt"
           /\ pc = "test" /\ FirstIsExit => pc' = "done"
           /\ pc' = "done" => pc = "test" /\ FirstIsExit
           /\ pc # "done" ]_vars

\* the loop has ended on the second command, after an external command ran
C3_Witness ==
    /\ pc = "done"
    /\ prompts = 2
    /\ Len(procs) = 1

(***************************************************************************)
(* Liveness. The interpreter is a process the system keeps scheduling: a   *)
(* step of it that stays possible is eventually taken. Nothing is assumed  *)
(* of the children: a launched program may run, or stay stopped, forever.  *)
(***************************************************************************)
FairSpec == Spec /\ WF_vars(ParentStep)

\* C4: when the launched child has exited or was killed, the interpreter
\* eventually is back at its prompt; while the child has not terminated the
\* interpreter stays in the wait and emits no prompt.
C4_PromptAfterChildEnds ==
    /\ (pc = "wait" /\ Terminal(procs[pid])) ~> (pc = "prompt")
    /\ [][ pc = "wait" /\ ~Terminal(procs'[pid]) =>
              pc' = "wait" /\ prompts' = prompts ]_vars

\* What holds of the code: the prompt follows the child's end when SIGCHLD
\* has its default disposition, so that the terminated child stays a zombie
\* until waitpid reports it.
C4_PromptAfterChildEnds_Default ==
    (~sigchldIgnored /\ pc = "wait" /\ Terminal(procs[pid])) ~> (pc = "prompt")

\* every character of s is a space, a tab, a carriage return or a bell
OnlyBlanks(s) == \A i \in 1..Len(s) : s[i] \in {32, 9, 13, 7}

\* the cycle of the line held in line is past its dispatch
CycleDispatched == prompts > 0 /\ pc \in AfterDispatch \cup {"prompt", "done"}

\* C5: for a line that is empty or holds only spaces, tabs, carriage returns
\* and bells, the cycle invokes no builtin handler, forks nothing, writes no
\* error, and the loop goes on to prompt again.
C5_BlankLineIsNoOp ==
    CycleDispatched /\ OnlyBlanks(line) =>
        /\ args = <<NULL>>
        /\ called = NoCall
        /\ pid = 0
        /\ ~waited
        /\ cycleErr = {}
        /\ status = 1
        /\ pc # "done"

\* the loop is back at its prompt after a line of a tab, a carriage return,
\* a bell and a space
C5_Witness ==
    /\ pc = "prompt"
    /\ prompts = 1
    /\ line = <<9, 13, 7, 32>>

\* the first token of the line is a word that is neither a builtin name nor a
\* program execvp finds
FirstIsUnknownProgram ==
    /\ Arg(args, 0) \notin {NULL, <<99, 100>>, <<104, 101, 108, 112>>,
                            <<101, 120, 105, 116>>}
    /\ Arg(args, 0) \notin Executables

C7_ForkFailureContinues ==
    /\ [][ pid' = -1 /\ pid # -1 =>
              /\ procs' = procs
              /\ "lsh: fork" \in cycleErr'
              /\ status' = 1
              /\ pc' = "free_line" ]_vars
    /\ [](pid = -1 =>
              /\ ~waited
              /\ "lsh: exec" \notin cycleErr
              /\ Outstanding = {}
              /\ status = 1
              /\ pc \in AfterDispatch \cup {"prompt"}
              /\ exitStatus = NoStatus)

\* the loop is back at its prompt after a fork that failed
C7_Witness ==
    /\ pid = -1
    /\ pc = "prompt"
    /\ "lsh: fork" \in cycleErr

\* C8: for a line whose first token is exactly "cd" and that has no second
\* token, lsh_cd reports the missing argument, leaves the working directory
\* as it is, launches nothing and returns 1.
C8_CdWithoutArgument ==
    [][ pc = "execute" /\ Arg(args, 0) = <<99, 100>> /\ Arg(args, 1) = NULL =>
           /\ called'.fn = "lsh_cd"
           /\ "lsh: expected argument to cd" \in cycleErr'
           /\ cwd' = cwd
           /\ procs' = procs
           /\ pid' = 0
           /\ status' = 1
           /\ pc' = "free_line" ]_vars

\* cd without argument has returned, from the directory an earlier cd entered
C8_Witness ==
    /\ pc = "free_line"
    /\ called.fn = "lsh_cd"
    /\ Arg(args, 1) = NULL
    /\ cwd = <<100>>
    /\ "lsh: expected argument to cd" \in cycleErr

\* the handler a first token names, when the token is exactly a builtin name
HandlerNamed(tok) ==
    CASE tok = <<99, 100>> -> "lsh_cd"
      [] tok = <<104, 101, 108, 112>> -> "lsh_help"
      [] tok = <<101, 120, 105, 116>> -> "lsh_exit"
      [] OTHER -> "lsh_launch"

\* C10: the dispatch goes by equality of the whole first token with a
\* builtin name: "cd", "help" and "exit" run their handler with the argument
\* vector and fork nothing; any other non-empty vector, also one whose first
\* token starts with or contains a builtin name, runs no handler and goes to
\* the launcher complete and unchanged.
C10_DispatchByExactName ==
    prompts > 0 /\ pc \in AfterDispatch \cup {"wait"} /\ Arg(args, 0) # NULL =>
        /\ called = [fn |-> HandlerNamed(Arg(args, 0)), argv |-> args]
        /\ called.fn # "lsh_launch" => pid = 0 /\ ~waited
        /\ called.fn = "lsh_launch" =>
              /\ pid # 0
              /\ pid > 0 /\ procs[pid].st = "forked" => procs[pid].argv = args

\* the launcher's child holds the vector of "cdx" and one argument
C10_Witness ==
    /\ pc = "wait"
    /\ Arg(args, 0) = <<99, 100, 120>>
    /\ Len(args) = 3
    /\ procs[pid].st = "forked"
    /\ procs[pid].argv = args

(***************************************************************************)
(* lsh_split_line on its own: the tokenizer applied to every line of at    *)
(* most MaxTokLine characters over the five delimiters and two letters.    *)
(***************************************************************************)
\* space, tab, carriage return, newline, bell, 'a', 'b'
TokAlphabet == {SP, TAB, CR, LF, BEL, 97, 98}

TokLines == UNION { [1..n -> TokAlphabet] : n \in 0..MaxTokLine }

TokInit ==
    /\ pc = "split"
    /\ prompts = 1
    /\ line \in TokLines
    /\ lineLive = TRUE
    /\ args = <<>>
    /\ argsLive = FALSE
    /\ status = 1
    /\ cwd = <<47>>
    /\ procs = <<>>
    /\ pid = 0
    /\ wpid = 0
    /\ wstatus = Indeterminate
    /\ sigchldIgnored = FALSE
    /\ exitStatus = NoStatus
    /\ called = NoCall
    /\ cycleErr = {}
    /\ waited = FALSE
    /\ stopsSeen = 0
    /\ typed = <<>>
    /\ rline = NoRead
    /\ rargs = NoSplit
    /\ failures = {}
    /\ stdoutTty = FALSE
    /\ outbuf = <<"> ">>
    /\ screen = <<>>
    /\ helps = 0

SpecTok == TokInit /\ [][SplitLine]_vars

\* the delimiters as the tokenizer's contract lists them
Blank(c) == c \in {32, 9, 13, 10, 7}

\* the indices at which a maximal run of non-delimiters of s starts
RunStarts(s) ==
    { i \in 1..Len(s) : ~Blank(s[i]) /\ (i = 1 \/ Blank(s[i - 1])) }

\* the index at which the run that starts at i ends
RunEnd(s, i) ==
    CHOOSE j \in i..Len(s) :
        /\ \A k \in i..j : ~Blank(s[k])
        /\ j = Len(s) \/ Blank(s[j + 1])

\* the maximal runs of non-delimiters of s, from left to right
MaximalRuns(s) ==
    LET starts == RunStarts(s)
        nth(k) == CHOOSE i \in starts : Cardinality({ j \in starts : j < i }) = k - 1
    IN  [ k \in 1..Cardinality(starts) |-> SubSeq(s, nth(k), RunEnd(s, nth(k))) ]

\* s with the character c put in after its first i characters
InsertAt(s, i, c) == SubSeq(s, 1, i) \o <<c>> \o SubSeq(s, i + 1, Len(s))

\* a delimiter put in after the first i characters of s only lengthens a run
\* of delimiters, or the line's start or end: it splits no token
BesideBlank(s, i) ==
    \/ i = 0
    \/ i = Len(s)
    \/ Blank(s[i])
    \/ Blank(s[i + 1])

\* C9: lsh_split_line returns, in order, exactly the maximal runs of
\* non-delimiter characters of the line, then the sentinel; no token is empty
\* or holds a delimiter; one more delimiter before, after or beside a
\* delimiter changes nothing; an empty line gives the sentinel alone.
C9_TokensAreMaximalRuns ==
    pc = "execute" =>
        /\ args = MaximalRuns(line) \o <<NULL>>
        /\ \A k \in 1..(Len(args) - 1) :
              /\ args[k] # <<>>
              /\ args[k] # NULL
              /\ \A i \in 1..Len(args[k]) : ~Blank(args[k][i])
        /\ \A i \in 0..Len(line), d \in {32, 9, 13, 10, 7} :
              BesideBlank(line, i) =>
                  lsh_split_line(InsertAt(line, i, d)).tokens = args
        /\ line = <<>> => args = <<NULL>>
        /\ lsh_split_line(<<97, 32, 98>>).tokens = << <<97>>, <<98>>, NULL >>
        /\ lsh_split_line(<<32, 32, 97, 32, 32, 32, 98, 32, 32>>).tokens =
              lsh_split_line(<<97, 32, 98>>).tokens

\* a line that starts with a delimiter was split into two tokens
C9_Witness ==
    /\ pc = "execute"
    /\ Len(line) = 4
    /\ Blank(line[1])
    /\ Len(args) = 3
    /\ args[1] # args[2]

(***************************************************************************)
(* lsh_read_line on its own: the reader applied to every input of at most  *)
(* MaxReadLen characters, and to lines as long as the buffer's capacity    *)
(* after each growth step, one shorter and one longer.                     *)
(***************************************************************************)
\* 'a', space, NUL, newline, and the character 255
ReadAlphabet == {97, SP, NUL, LF, 255}

\* lengths at, one below and one above a multiple of LSH_RL_BUFSIZE
LongLens == { k * LSH_RL_BUFSIZE + d : k \in 1..MaxGrow, d \in {-1, 0, 1} }

\* inputs: short ones ended by end-of-input or holding a newline, and long
\* lines ended by end-of-input, by a newline, or followed by another line
ReadInputs ==
    UNION { [1..n -> ReadAlphabet] : n \in 0..MaxReadLen }
    \cup { [i \in 1..n |-> 97] \o tail :
              n \in LongLens, tail \in { <<>>, <<LF>>, <<LF, 97>> } }

ReadInit ==
    /\ pc = "read"
    /\ prompts = 1
    /\ line = <<>>
    /\ lineLive = FALSE
    /\ args = <<>>
    /\ argsLive = FALSE
    /\ status = 1
    /\ cwd = <<47>>
    /\ procs = <<>>
    /\ pid = 0
    /\ wpid = 0
    /\ wstatus = Indeterminate
    /\ sigchldIgnored = FALSE
    /\ exitStatus = NoStatus
    /\ called = NoCall
    /\ cycleErr = {}
    /\ waited = FALSE
    /\ stopsSeen = 0
    /\ typed \in ReadInputs
    /\ rline = read_start
    /\ rargs = NoSplit
    /\ failures = {}
    /\ stdoutTty = FALSE
    /\ outbuf = <<"> ">>
    /\ screen = <<>>
    /\ helps = 0

\* one pass of the while loop of lsh_read_line on the input that is waiting;
\* the pass that meets the newline or the end of the input returns the line
ReadChar ==
    /\ pc = "read"
    /\ rline' = read_char(rline, getchar(typed, rline.consumed + 1))
    /\ outbuf' = ReadFlush.outbuf
    /\ screen' = ReadFlush.screen
    /\ IF rline'.ret
       THEN /\ line' = CStr(rline'.buffer)
            /\ lineLive' = TRUE
            /\ pc' = "split"
       ELSE UNCHANGED << line, lineLive, pc >>
    /\ UNCHANGED << prompts, args, argsLive, status, cwd, procs, pid, wpid,
                    wstatus, sigchldIgnored, exitStatus, called, cycleErr,
                    waited, stopsSeen, typed, rargs, failures, stdoutTty, helps >>

SpecRead == ReadInit /\ [][ReadChar]_vars

\* the characters of s before its first newline, or all of them without one
BeforeNewline(s) ==
    LET ends == { i \in 1..Len(s) : s[i] = 10 }
    IN  IF ends = {} THEN s
        ELSE SubSeq(s, 1, (CHOOSE i \in ends : \A j \in ends : i <= j) - 1)

\* C11: lsh_read_line returns exactly the characters before the first newline
\* or the end of the input, without the newline, followed by the null
\* character; nothing read gives the empty line; also for a line as long as
\* a multiple of 1024, or one shorter, every write, the terminator's
\* included, is at an index below the buffer's capacity at that time.
C11_ReadLineReturnsTheLine ==
    /\ rline.inb
    /\ Len(rline.buffer) <= rline.bufsize
    /\ rline.bufsize % 1024 = 0
    /\ pc = "split" =>
        /\ rline.ret
        /\ rline.buffer = BeforeNewline(typed) \o <<0>>
        /\ (typed = <<>> \/ typed[1] = 10) => rline.buffer = <<0>> /\ line = <<>>
        /\ (\A i \in 1..Len(typed) : typed[i] # 0) => line = BeforeNewline(typed)

\* a line of exactly 1024 characters and its newline were read
C11_Witness ==
    /\ pc = "split"
    /\ Len(typed) = 1025
    /\ typed[1025] = 10
    /\ Len(rline.buffer) = 1025
    /\ rline.bufsize = 2048

(***************************************************************************)
(* The interpreter's own exit status.                                      *)
(***************************************************************************)
\* C12: when the interpreter terminates through the exit builtin, its own
\* exit status is success, whatever the commands before did: exit codes,
\* killing signals, failed loads, failed forks and failed cd calls of
\* earlier commands do not change it.
C12_ExitBuiltinGivesSuccess ==
    pc = "done" =>
        /\ called.fn = "lsh_exit"
        /\ exitStatus = EXIT_SUCCESS

\* the exit builtin ended the interpreter after a signal killed the program
\* of the command before
C12_Witness ==
    /\ pc = "done"
    /\ called.fn = "lsh_exit"
    /\ prompts = 2
    /\ "killed" \in failures

(***************************************************************************)
(* The lifetime of the line and of the argument vector in lsh_loop.        *)
(***************************************************************************)
\* C13: in every iteration the argument vector is released before the line
\* or together with it: at the step that releases the line the vector is
\* not held any more.
C13_VectorReleasedNoLaterThanLine ==
    [][ lineLive /\ ~lineLive' => ~argsLive' ]_vars

\* the positions of lsh_loop where an iteration holds nothing any more
NothingHeld == {"prompt", "read", "test", "done"}

\* C14: in every iteration, whether the dispatch said continue or stop, the
\* line and the vector of that iteration are each released exactly once and
\* only after the dispatch has returned; no token is read (by lsh_execute,
\* the builtins or lsh_launch) after the line was released; nothing of an
\* iteration is held when the next one starts or when the loop has ended.
C14_ReleasedOnceAfterDispatch ==
    /\ [](pc \in {"execute", "wait"} => lineLive /\ argsLive)
    /\ [](pc = "free_line" => lineLive /\ argsLive)
    /\ [](pc = "free_args" => ~lineLive /\ argsLive)
    /\ [](pc \in NothingHeld => ~lineLive /\ ~argsLive)
    /\ [](pc = "split" => lineLive /\ ~argsLive)
    /\ [][ /\ lineLive /\ ~lineLive' => pc = "free_line" /\ pc' = "free_args"
           /\ argsLive /\ ~argsLive' => pc = "free_args" /\ pc' = "test"
           /\ pc = "free_line" => ~lineLive'
           /\ pc = "free_args" => ~argsLive' ]_vars

\* the second iteration has released its line and its vector after the stop
\* outcome, the first one after the continue outcome of a launched command
C14_Witness ==
    /\ pc = "done"
    /\ prompts = 2
    /\ status = 0
    /\ Len(procs) = 1
    /\ ~lineLive
    /\ ~argsLive

(***************************************************************************)
(* The interpreter's working directory.                                    *)
(***************************************************************************)
\* C15: the interpreter's working directory changes only in a step where
\* the cd builtin is dispatched with a path argument and chdir succeeds,
\* and then to that path; no other step changes it: not an empty line, help,
\* exit, cd without argument, a cd that fails, a launch, a failed fork, or
\* a child that changes its own directory.
C15_CwdChangesOnlyBySuccessfulCd ==
    [][ cwd' # cwd =>
          /\ pc = "execute"
          /\ Arg(args, 0) = <<99, 100>>
          /\ Arg(args, 1) # NULL
          /\ chdir_ok(Arg(args, 1))
          /\ cwd' = Arg(args, 1)
          /\ called'.fn = "lsh_cd"
          /\ procs' = procs ]_vars

\* after cd d the interpreter is in d while the program it launched next
\* has moved itself to the root directory
C15_Witness ==
    /\ cwd = <<100>>
    /\ pc = "wait"
    /\ procs[pid].st = "running"
    /\ procs[pid].cwd = <<47>>

(***************************************************************************)
(* Allocation failures.                                                    *)
(***************************************************************************)
\* C16: when an allocation or reallocation fails in the line reader or in
\* the tokenizer, the interpreter terminates at once with a failure status:
\* no command of that cycle is dispatched, no further prompt is emitted,
\* nothing more happens, and the success exit is never reached.
C16_AllocationFailureTerminates ==
    /\ []("lsh: allocation error" \in cycleErr =>
              /\ pc = "exited"
              /\ exitStatus = EXIT_FAILURE
              /\ exitStatus # EXIT_SUCCESS
              /\ called = NoCall)
    /\ [][ /\ "lsh: allocation error" \in cycleErr' \ cycleErr =>
                /\ pc \in {"read", "split"}
                /\ prompts' = prompts
                /\ procs' = procs
           /\ ~("lsh: allocation error" \in cycleErr) ]_vars

\* the tokenizer's allocation failed on the second line, after the first
\* command was dispatched
C16_Witness ==
    /\ pc = "exited"
    /\ "lsh: allocation error" \in cycleErr
    /\ prompts = 2
    /\ lineLive
    /\ exitStatus = EXIT_FAILURE

(***************************************************************************)
(* Who runs the dispatch loop.                                             *)
(***************************************************************************)
\* the processes inside lsh_loop: the interpreter (0) and every child that
\* came back from lsh_launch
InLoop == {0} \cup { p \in DOMAIN procs : procs[p].st = "returned" }

\* C17: a child never executes the dispatch loop. After fork the child's
\* image is replaced by the requested program or, when the load fails, the
\* child reports the error and terminates with a failure status; in every
\* state exactly one process, the interpreter, can prompt, read and
\* dispatch.
C17_ChildNeverRunsTheLoop ==
    /\ [](InLoop = {0})
    /\ [](\A p \in DOMAIN procs : Live(procs[p]) \/ Terminal(procs[p]))
    /\ [][ \A p \in DOMAIN procs :
             procs[p].st = "forked" /\ procs'[p] # procs[p] =>
                /\ UNCHANGED << pc, prompts, line, args, called, status >>
                /\ IF Arg(procs[p].argv, 0) \in Executables
                   THEN procs'[p].st = "running"
                   ELSE /\ Terminal(procs'[p])
                        /\ "lsh: exec" \in cycleErr'
                        /\ procs'[p].st = "zombie" =>
                              procs'[p].wstat = ExitedStatus(EXIT_FAILURE) ]_vars

\* the child could not load its program and has terminated with the failure
\* status, while the interpreter waits for it
C17_Witness ==
    /\ pc = "wait"
    /\ "lsh: exec" \in cycleErr
    /\ procs[pid].st = "zombie"
    /\ procs[pid].wstat = ExitedStatus(EXIT_FAILURE)
    /\ InLoop = {0}

(***************************************************************************)
(* What the operator sees of lsh_help.                                     *)
(***************************************************************************)
\* how many listings of the builtins the sequence of output items s holds
Listings(s) == Cardinality({ i \in 1..Len(s) : s[i] = Listing })

\* C18: every invocation of the help builtin makes the listing appear in
\* the output exactly once: never more listings on the output than help was
\* invoked, none lost in a buffer when the interpreter has terminated; also
\* when the listing is still unwritten in stdout's buffer at the time an
\* external command is launched and the child, which has a copy of that
\* buffer, fails to load its program and terminates through exit().
C18_HelpListingExactlyOnce ==
    /\ Listings(screen) <= helps
    /\ Listings(screen) + Listings(outbuf) = helps
    /\ pc \in {"done", "exited"} => Listings(screen) = helps

\* with stdout a terminal the listing is written out before the next line
\* is read, and no child has a copy of it
C18_HelpListingExactlyOnce_Terminal ==
    stdoutTty => C18_HelpListingExactlyOnce

(***************************************************************************)
(* lsh_split_line on long lines: the tokenizer's loop, token by token, on  *)
(* lines with as many tokens as the vector's capacity after each growth    *)
(* step, one fewer and one more.                                           *)
(***************************************************************************)
\* numbers of tokens at, one below and one above a multiple of
\* LSH_TOK_BUFSIZE, and none, one and two
TokCounts ==
    {0, 1, 2} \cup { k * LSH_TOK_BUFSIZE + d : k \in 1..MaxGrow, d \in {-1, 0, 1} }

\* a line of n tokens "a", each followed by sep
WordsLine(n, sep) == [i \in 1..(n * (1 + Len(sep))) |->
                        IF i % (1 + Len(sep)) = 1 THEN 97
                        ELSE sep[((i - 2) % (1 + Len(sep))) + 1]]

LongLines == { WordsLine(n, sep) : n \in TokCounts, sep \in { <<SP>>, <<TAB, SP>> } }

LongInit ==
    /\ pc = "split"
    /\ prompts = 1
    /\ line \in LongLines
    /\ lineLive = TRUE
    /\ args = <<>>
    /\ argsLive = FALSE
    /\ status = 1
    /\ cwd = <<47>>
    /\ procs = <<>>
    /\ pid = 0
    /\ wpid = 0
    /\ wstatus = Indeterminate
    /\ sigchldIgnored = FALSE
    /\ exitStatus = NoStatus
    /\ called = NoCall
    /\ cycleErr = {}
    /\ waited = FALSE
    /\ stopsSeen = 0
    /\ typed = <<>>
    /\ rline = NoRead
    /\ rargs = split_start(line)
    /\ failures = {}
    /\ stdoutTty = FALSE
    /\ outbuf = <<"> ">>
    /\ screen = <<>>
    /\ helps = 0

\* one pass of the while loop of lsh_split_line on the line; the pass that
\* finds no token left stores the sentinel and returns the vector
SplitToken ==
    /\ pc = "split"
    /\ rargs' = split_token(line, rargs)
    /\ IF rargs'.ret
       THEN /\ args' = rargs'.tokens
            /\ argsLive' = TRUE
            /\ pc' = "execute"
       ELSE UNCHANGED << args, argsLive, pc >>
    /\ UNCHANGED << prompts, line, lineLive, status, cwd, procs, pid, wpid, wstatus,
                    sigchldIgnored, exitStatus, called, cycleErr, waited,
                    stopsSeen, typed, rline, failures, stdoutTty, outbuf, screen,
                    helps >>

SpecTokLong == LongInit /\ [][SplitToken]_vars

\* C19: in lsh_split_line, for a line with any number of tokens, 63, 64, 127
\* and 128 among them, every store into the token vector, the final store
\* of the sentinel included, is at an index strictly below the vector's
\* capacity at that time, and the returned vector ends with the sentinel at
\* the index equal to the number of tokens.
C19_TokenStoresInBounds ==
    /\ rargs.inb
    /\ rargs.position = Len(rargs.tokens) - (IF rargs.ret THEN 1 ELSE 0)
    /\ rargs.bufsize % 64 = 0
    /\ pc = "execute" =>
        /\ rargs.ret
        /\ rargs.position < rargs.bufsize
        /\ rargs.position = Cardinality(RunStarts(line))
        /\ Len(args) = rargs.position + 1
        /\ Arg(args, rargs.position) = NULL
        /\ \A i \in 0..(rargs.position - 1) : Arg(args, i) # NULL

\* a line of exactly 64 tokens was split: the vector grew once and the
\* sentinel is at index 64
C19_Witness ==
    /\ pc = "execute"
    /\ Cardinality(RunStarts(line)) = 64
    /\ rargs.position = 64
    /\ rargs.bufsize = 128
    /\ Arg(args, 64) = NULL

(***************************************************************************)
(* The status lsh_launch's wait loop tests.                                *)
(***************************************************************************)
\* C20: in the wait loop of lsh_launch the test that ends the wait is always
\* evaluated on a status that the waitpid call just before it wrote for the
\* launched child: once waitpid was called in a cycle, its last call
\* returned the child's pid, so the wait is neither ended on a stale or
\* never-written status nor repeated after a call that failed.
C20_TestOnWrittenStatus ==
    waited => wpid = pid

\* with SIGCHLD at its default every waitpid call of the loop succeeds
C20_TestOnWrittenStatus_Default ==
    ~sigchldIgnored => C20_TestOnWrittenStatus

====
